---- MODULE Spec2Model ----
(***************************************************************************)
(* Screen Coach: the frame preprocessing and change-detection pipeline of  *)
(* src/screen_coach (main.py, utils.py, overlay.py).                       *)
(*                                                                         *)
(* Text is modelled as a sequence of one-character strings, so that        *)
(* str.split, str.strip, str.lower and int() are computed character by      *)
(* character.  Optional values are sequences of length at most one:        *)
(* None is <<>> and a present value x is <<x>>.                            *)
(***************************************************************************)
EXTENDS Integers, Sequences, FiniteSets, TLC

VARIABLES
    \* main(): the parsed command line and the closure variables of process_frame
    args, regions, last_payload_digest, last_image, last_message,
    \* OverlayWindow._label
    overlay_text,
    \* what the last run of process_frame did (history, for the properties)
    tick,
    \* parse_region_config called on its own: argument and outcome
    config, parsed,
    \* redact_regions called on its own: the image objects, the call and its result
    heap, call, returned

vars == <<args, regions, last_payload_digest, last_image, last_message,
          overlay_text, tick, config, parsed, heap, call, returned>>

None == <<>>

Some(x) == <<x>>

----------------------------------------------------------------------------
(* Bounds of the model *)

\* ticks of the QTimer that one behaviour runs
MaxTicks == 3
\* comma-separated fields of the first group of a generated redaction config
MaxFields == 5
\* regions handed to one redact_regions call
MaxRegions == 2

----------------------------------------------------------------------------
(* str helpers *)

Whitespace == {" ", "\t"}

Digits == {"0", "1", "2", "3", "4", "5", "6", "7", "8", "9"}

DigitValue(c) ==
    CASE c = "0" -> 0 [] c = "1" -> 1 [] c = "2" -> 2 [] c = "3" -> 3
      [] c = "4" -> 4 [] c = "5" -> 5 [] c = "6" -> 6 [] c = "7" -> 7
      [] c = "8" -> 8 [] c = "9" -> 9

RECURSIVE lstrip(_)
lstrip(s) ==
    IF s # <<>> /\ Head(s) \in Whitespace THEN lstrip(Tail(s)) ELSE s

RECURSIVE rstrip(_)
rstrip(s) ==
    IF s # <<>> /\ s[Len(s)] \in Whitespace
    THEN rstrip(SubSeq(s, 1, Len(s) - 1))
    ELSE s

\* str.strip()
strip(s) == rstrip(lstrip(s))

\* str.split(sep) for a one-character separator: always at least one piece
RECURSIVE split(_, _)
split(s, sep) ==
    IF \E i \in 1..Len(s) : s[i] = sep
    THEN LET i == CHOOSE k \in 1..Len(s) :
                      s[k] = sep /\ \A j \in 1..(k - 1) : s[j] # sep
         IN  <<SubSeq(s, 1, i - 1)>> \o split(SubSeq(s, i + 1, Len(s)), sep)
    ELSE <<s>>

LowerChar(c) ==
    CASE c = "E" -> "e" [] c = "D" -> "d" [] c = "X" -> "x" [] OTHER -> c

\* str.lower()
lower(s) == [i \in 1..Len(s) |-> LowerChar(s[i])]

\* the operator `sub in s` on str
contains(s, sub) ==
    \E i \in 1..(Len(s) - Len(sub) + 1) : SubSeq(s, i, i + Len(sub) - 1) = sub

RECURSIVE DecimalValue(_)
DecimalValue(ds) ==
    IF ds = <<>> THEN 0
    ELSE 10 * DecimalValue(SubSeq(ds, 1, Len(ds) - 1)) + DigitValue(ds[Len(ds)])

\* int(text): surrounding whitespace and one sign are accepted, then digits only
int(text) ==
    LET t == strip(text)
        signed == t # <<>> /\ t[1] \in {"-", "+"}
        ds == IF signed THEN Tail(t) ELSE t
    IN  IF ds # <<>> /\ \A i \in 1..Len(ds) : ds[i] \in Digits
        THEN [ok |-> TRUE,
              value |-> IF signed /\ t[1] = "-" THEN 0 - DecimalValue(ds)
                        ELSE DecimalValue(ds)]
        ELSE [ok |-> FALSE, value |-> 0]

----------------------------------------------------------------------------
(* utils.py: Region and parse_region_config *)

ValueError(why) == [ok |-> FALSE, error |-> why, regions |-> <<>>]

Region(l, t, r, b) == [left |-> l, top |-> t, right |-> r, bottom |-> b]

from_tuple_NoDimensionCheck(coords) ==
    IF Len(coords) # 4
    THEN [ok |-> FALSE, error |-> "Region requires four integers"]
    ELSE [ok |-> TRUE,
          region |-> Region(coords[1], coords[2], coords[3], coords[4])]

\* Region.from_tuple
from_tuple(coords) ==
    IF Len(coords) # 4
    THEN [ok |-> FALSE, error |-> "Region requires four integers"]
    ELSE IF coords[3] <= coords[1] \/ coords[4] <= coords[2]
         THEN [ok |-> FALSE, error |-> "Invalid region dimensions"]
         ELSE [ok |-> TRUE,
               region |-> Region(coords[1], coords[2], coords[3], coords[4])]

\* the `if part.strip()` filter of the list comprehension
RECURSIVE NonBlankParts(_)
NonBlankParts(parts) ==
    IF parts = <<>> THEN <<>>
    ELSE IF strip(Head(parts)) # <<>>
         THEN <<Head(parts)>> \o NonBlankParts(Tail(parts))
         ELSE NonBlankParts(Tail(parts))

\* coords = [int(part) for part in chunk.split(",") if part.strip()]
ParseCoords(chunk) ==
    LET parts == NonBlankParts(split(chunk, ","))
    IN  IF \E i \in 1..Len(parts) : ~int(parts[i]).ok
        THEN [ok |-> FALSE, coords |-> <<>>]
        ELSE [ok |-> TRUE, coords |-> [i \in 1..Len(parts) |-> int(parts[i]).value]]

\* the loop over config.split(";"): the first exception ends the parse
RECURSIVE ParseChunks(_, _)
ParseChunks(chunks, acc) ==
    IF chunks = <<>> THEN [ok |-> TRUE, error |-> "", regions |-> acc]
    ELSE LET chunk == strip(Head(chunks))
         IN  IF chunk = <<>> THEN ParseChunks(Tail(chunks), acc)
             ELSE LET c == ParseCoords(chunk)
                  IN  IF ~c.ok THEN ValueError("invalid literal for int()")
                      ELSE LET r == from_tuple(c.coords)
                           IN  IF ~r.ok THEN ValueError(r.error)
                               ELSE ParseChunks(Tail(chunks), Append(acc, r.region))

parse_region_config(cfg) ==
    IF cfg = <<>> THEN [ok |-> TRUE, error |-> "", regions |-> <<>>]
    ELSE ParseChunks(split(cfg, ";"), <<>>)

----------------------------------------------------------------------------
(* PIL images.  A bitmap is its size and its RGB pixels; an Image object is  *)
(* a slot of a heap (a sequence of bitmaps), so that paste(), which writes   *)
(* into the object it is called on, is visible to everyone holding it.       *)

Positions(size) == (0..(size[1] - 1)) \X (0..(size[2] - 1))

Bitmap(size, px) == [size |-> size, px |-> px]

Black == <<0, 0, 0>>

\* result of an Image method that creates an object: the heap and the new object
Allocated(hp, bitmap) == [heap |-> Append(hp, bitmap), ref |-> Len(hp) + 1]

Image_copy_Alias(hp, ref) == [heap |-> hp, ref |-> ref]

\* Image.copy()
Image_copy(hp, ref) == Allocated(hp, hp[ref])

\* Image.crop(box): a new image; what lies outside the source reads as black
Image_crop(hp, ref, box) ==
    LET src == hp[ref]
        size == <<box[3] - box[1], box[4] - box[2]>>
    IN  Allocated(hp, Bitmap(size,
            [p \in Positions(size) |->
                LET q == <<p[1] + box[1], p[2] + box[2]>>
                IN  IF q \in DOMAIN src.px THEN src.px[q] ELSE Black]))

\* Image.new("RGB", size, color)
Image_new(hp, size, color) ==
    Allocated(hp, Bitmap(size, [p \in Positions(size) |-> color]))

\* Image.paste(im, box): writes im into the object itself
Image_paste(hp, ref, src, box) ==
    [hp EXCEPT ![ref].px =
        [p \in DOMAIN hp[ref].px |->
            IF /\ box[1] <= p[1] /\ p[1] < box[3]
               /\ box[2] <= p[2] /\ p[2] < box[4]
            THEN hp[src].px[<<p[1] - box[1], p[2] - box[2]>>]
            ELSE hp[ref].px[p]]]

\* the loop of redact_regions with fill_color given (process_frame never
\* passes fill_color=None, so the GaussianBlur branch is not modelled)
RECURSIVE RedactLoop(_, _, _, _)
RedactLoop(hp, processed, rs, fill_color) ==
    IF rs = <<>> THEN hp
    ELSE LET region == Head(rs)
             box == <<region.left, region.top, region.right, region.bottom>>
             crop == Image_crop(hp, processed, box)
             fill == Image_new(crop.heap, crop.heap[crop.ref].size, fill_color)
         IN  RedactLoop(Image_paste(fill.heap, processed, fill.ref, box),
                        processed, Tail(rs), fill_color)

redact_regions(hp, image, rs, fill_color) ==
    LET processed == Image_copy(hp, image)
    IN  [heap |-> RedactLoop(processed.heap, processed.ref, rs, fill_color),
         ref |-> processed.ref]

----------------------------------------------------------------------------
(* utils.py: change detection, encoding, digest *)

\* default of has_significant_change's threshold
DefaultThreshold == 8

AbsDiff(a, b) == IF a >= b THEN a - b ELSE b - a

\* ImageChops.difference: per channel |a - b|, on the common area
difference(a, b) ==
    LET size == <<IF a.size[1] <= b.size[1] THEN a.size[1] ELSE b.size[1],
                  IF a.size[2] <= b.size[2] THEN a.size[2] ELSE b.size[2]>>
    IN  Bitmap(size, [p \in Positions(size) |->
                        [c \in 1..3 |-> AbsDiff(a.px[p][c], b.px[p][c])]])

\* Image.histogram() of an RGB image: 256 counts per band, bands in a row
histogram(image) ==
    [idx \in 0..767 |->
        Cardinality({p \in DOMAIN image.px :
                        image.px[p][(idx \div 256) + 1] = idx % 256})]

\* sum(value * ((idx % 256) ** 2) for idx, value in enumerate(histogram)),
\* over the buckets lo..hi (summed by halves to keep the evaluation shallow)
RECURSIVE SumSquares(_, _, _)
SumSquares(hist, lo, hi) ==
    IF lo > hi THEN 0
    ELSE IF lo = hi THEN hist[lo] * ((lo % 256) * (lo % 256))
    ELSE LET mid == (lo + hi) \div 2
         IN  SumSquares(hist, lo, mid) + SumSquares(hist, mid + 1, hi)

has_significant_change_NoFirstFrame(current, previous, threshold) ==
    /\ previous # None
    /\ SumSquares(histogram(difference(current, previous[1])), 0, 767)
         >= threshold * threshold * (current.size[1] * current.size[2] * 3)

\* rms >= threshold, for a threshold >= 0, compared on the squares:
\* sum / total >= threshold^2
has_significant_change(current, previous, threshold) ==
    IF previous = None THEN TRUE
    ELSE SumSquares(histogram(difference(current, previous[1])), 0, 767)
           >= threshold * threshold * (current.size[1] * current.size[2] * 3)

\* Image.thumbnail(max_size) on a copy: an image that fits max_size (1280x720)
\* keeps its size and pixels, and every frame of the model fits
resize_image(image) == image

\* the lossy step of image.save(quality=...): samples are kept to a step that
\* grows as quality falls (an abstraction of the JPEG and WebP quantisers)
QuantStep(quality) == 101 - quality

compress_image(image, format, quality) ==
    LET fmt == IF format \in {"JPEG", "JPG", "WEBP"} THEN format ELSE "JPEG"
        mime == IF fmt \in {"JPEG", "JPG"} THEN "image/jpeg" ELSE "image/webp"
        w == image.size[1]
    IN  [payload |->
            [format |-> fmt,
             size |-> image.size,
             samples |-> [i \in 1..(w * image.size[2]) |->
                 LET p == <<(i - 1) % w, (i - 1) \div w>>
                 IN  [c \in 1..3 |-> image.px[p][c] \div QuantStep(quality)]]],
         mime |-> mime]

\* main.py encode_frame
encode_frame(image, prefer_webp) ==
    compress_image(resize_image(image), IF prefer_webp THEN "WEBP" ELSE "JPEG", 80)

\* hashlib.sha1(data).hexdigest(): equal exactly when the data are equal
compute_digest(data) == [sha1 |-> data]

----------------------------------------------------------------------------
(* main.py: the environment of process_frame *)

\* get_active_window_title(): None, or the focused window's title
Titles == {None, Some(<<"e", "D", "x">>), Some(<<"x">>)}

Dim == <<10, 10, 10>>

White == <<255, 255, 255>>

Frame(a, b) == Bitmap(<<2, 1>>, (<<0, 0>> :> a) @@ (<<1, 0>> :> b))

\* capture_frame(grabber): the screens the grabber can return
Frames == {Frame(Black, Black), Frame(Dim, Dim), Frame(Black, Dim),
           Frame(White, White)}

\* every 2x1 bitmap over the colours of Frames and of the redaction fill
Bitmaps == {Frame(a, b) : a, b \in {Black, Dim, White}}

\* has_significant_change at its default threshold, tabulated once
ChangeTable ==
    [current, previous \in Bitmaps |->
        has_significant_change(current, Some(previous), DefaultThreshold)]

\* response.output_text of the vision model, before .strip()
Responses == {<<" ">>, <<"h", "i">>, <<"o", "k", " ">>}

\* str(exc) of the exception a failed capture or a failed request raises
Exceptions == {<<"!">>}

\* parse_args(argv): the command lines of the model.  The first has no
\* keywords and a --redact that does not parse, the second both
ArgsChoices ==
    {[window_keywords |-> <<>>,
      redact |-> <<"1", ",", "0", ",", "2">>, no_webp |-> FALSE],
     [window_keywords |-> << <<"E", "d">> >>,
      redact |-> <<"1", ",", "0", ",", "2", ",", "1">>, no_webp |-> TRUE]}

should_skip_window_Inverted(allowed_keywords, title) ==
    IF allowed_keywords = <<>> THEN FALSE
    ELSE IF title = None THEN FALSE
    ELSE \E i \in 1..Len(allowed_keywords) :
             contains(lower(title[1]), lower(allowed_keywords[i]))

should_skip_window(allowed_keywords, title) ==
    IF allowed_keywords = <<>> THEN FALSE
    ELSE IF title = None THEN FALSE
    ELSE ~\E i \in 1..Len(allowed_keywords) :
              contains(lower(title[1]), lower(allowed_keywords[i]))

\* analyze_frame: the request succeeded, the text is response.output_text.strip()
analyze_frame(response) == strip(response)

----------------------------------------------------------------------------
(* main.py: main() up to app.exec(), and process_frame, one action per path  *)
(* through the handler                                                       *)

Overlay(kind, text) == [kind |-> kind, text |-> text]

\* nonlocal last_payload_digest, last_image, last_message
PipelineState ==
    [last_payload_digest |-> last_payload_digest,
     last_image |-> last_image,
     last_message |-> last_message]

\* the record of one run of process_frame
Trace(title, outcome, captured, encoded, analyzed, screenshot, digest, message) ==
    [n |-> tick.n + 1, title |-> title, outcome |-> outcome,
     captured |-> captured, encoded |-> encoded, analyzed |-> analyzed,
     screenshot |-> screenshot, digest |-> digest, message |-> message,
     pre |-> PipelineState,
     prev_outcome |-> tick.outcome, prev_screenshot |-> tick.screenshot]

NoTick ==
    [n |-> 0, title |-> None, outcome |-> "none",
     captured |-> FALSE, encoded |-> FALSE, analyzed |-> FALSE,
     screenshot |-> None, digest |-> None, message |-> <<>>,
     pre |-> [last_payload_digest |-> None, last_image |-> None,
              last_message |-> <<>>],
     prev_outcome |-> "none", prev_screenshot |-> None]

\* regions = parse_region_config(args.redact), [] on ValueError
ConfiguredRegions(a) ==
    LET r == parse_region_config(a.redact)
    IN  IF r.ok THEN r.regions ELSE <<>>

\* if regions: screenshot = redact_regions(screenshot, regions)
Screenshot(frame) ==
    IF regions # <<>>
    THEN LET r == redact_regions(<<frame>>, 1, regions, Black)
         IN  r.heap[r.ref]
    ELSE frame

Encoded(screenshot) == encode_frame(screenshot, ~args.no_webp)

DigestOf(screenshot) == compute_digest(Encoded(screenshot).payload)

\* should_skip_window looks the title up only when keywords are configured
TitlesSeen == IF args.window_keywords = <<>> THEN {None} ELSE Titles

\* the QTimer fires: the model runs MaxTicks ticks
TimerFires == tick.n < MaxTicks

\* has_significant_change(screenshot, last_image)
Changed(screenshot) ==
    IF last_image = None
    THEN has_significant_change(screenshot, None, DefaultThreshold)
    ELSE ChangeTable[screenshot, last_image[1]]

ReachesAnalysis_NoDigestCheck(screenshot) == Changed(screenshot)

\* a captured frame that passes change detection and the digest check
ReachesAnalysis(screenshot) ==
    /\ Changed(screenshot)
    /\ last_payload_digest # Some(DigestOf(screenshot))

Idle == UNCHANGED <<args, regions, config, parsed, heap, call, returned>>

KeepState == UNCHANGED <<last_payload_digest, last_image, last_message>>

TickSkipWindow ==
    \E title \in TitlesSeen :
        /\ TimerFires
        /\ should_skip_window(args.window_keywords, title)
        /\ overlay_text' = Overlay("waiting", <<>>)
        /\ tick' = Trace(title, "skipped_window", FALSE, FALSE, FALSE,
                         None, None, <<>>)
        /\ KeepState /\ Idle

TickCaptureFailed_DropsFrame ==
    \E title \in TitlesSeen, exc \in Exceptions :
        /\ TimerFires
        /\ ~should_skip_window(args.window_keywords, title)
        /\ overlay_text' = Overlay("capture_failed", exc)
        /\ tick' = Trace(title, "capture_failed", FALSE, FALSE, FALSE,
                         None, None, <<>>)
        /\ last_image' = None
        /\ UNCHANGED <<last_payload_digest, last_message>>
        /\ Idle

TickCaptureFailed ==
    \E title \in TitlesSeen, exc \in Exceptions :
        /\ TimerFires
        /\ ~should_skip_window(args.window_keywords, title)
        /\ overlay_text' = Overlay("capture_failed", exc)
        /\ tick' = Trace(title, "capture_failed", FALSE, FALSE, FALSE,
                         None, None, <<>>)
        /\ KeepState /\ Idle

TickNoChange ==
    \E title \in TitlesSeen :
        /\ TimerFires
        /\ ~should_skip_window(args.window_keywords, title)
        /\ \E frame \in Frames :
            LET screenshot == Screenshot(frame)
            IN  /\ ~Changed(screenshot)
                /\ tick' = Trace(title, "no_change", TRUE, FALSE, FALSE,
                                 Some(screenshot), None, <<>>)
        /\ UNCHANGED overlay_text
        /\ KeepState /\ Idle

TickDuplicate ==
    \E title \in TitlesSeen :
        /\ TimerFires
        /\ ~should_skip_window(args.window_keywords, title)
        /\ \E frame \in Frames :
            LET screenshot == Screenshot(frame)
                digest_hash == DigestOf(screenshot)
            IN  /\ Changed(screenshot)
                /\ last_payload_digest = Some(digest_hash)
                /\ tick' = Trace(title, "duplicate", TRUE, TRUE, FALSE,
                                 Some(screenshot), Some(digest_hash), <<>>)
        /\ UNCHANGED overlay_text
        /\ KeepState /\ Idle

TickAnalysisFailed_StoresFrame ==
    \E title \in TitlesSeen, exc \in Exceptions :
        /\ TimerFires
        /\ ~should_skip_window(args.window_keywords, title)
        /\ \E frame \in Frames :
            LET screenshot == Screenshot(frame)
                digest_hash == DigestOf(screenshot)
            IN  /\ ReachesAnalysis(screenshot)
                /\ tick' = Trace(title, "analysis_failed", TRUE, TRUE, TRUE,
                                 Some(screenshot), Some(digest_hash), <<>>)
                /\ last_payload_digest' = Some(digest_hash)
                /\ last_image' = Some(screenshot)
        /\ overlay_text' = Overlay("analysis_failed", exc)
        /\ UNCHANGED last_message
        /\ Idle

TickAnalysisFailed ==
    \E title \in TitlesSeen, exc \in Exceptions :
        /\ TimerFires
        /\ ~should_skip_window(args.window_keywords, title)
        /\ \E frame \in Frames :
            LET screenshot == Screenshot(frame)
                digest_hash == DigestOf(screenshot)
            IN  /\ ReachesAnalysis(screenshot)
                /\ tick' = Trace(title, "analysis_failed", TRUE, TRUE, TRUE,
                                 Some(screenshot), Some(digest_hash), <<>>)
        /\ overlay_text' = Overlay("analysis_failed", exc)
        /\ KeepState /\ Idle

TickNoSuggestion_StoresFrame ==
    \E title \in TitlesSeen :
        /\ TimerFires
        /\ ~should_skip_window(args.window_keywords, title)
        /\ \E frame \in Frames :
            LET screenshot == Screenshot(frame)
                digest_hash == DigestOf(screenshot)
            IN  /\ ReachesAnalysis(screenshot)
                /\ \E response \in Responses : analyze_frame(response) = <<>>
                /\ tick' = Trace(title, "no_suggestion", TRUE, TRUE, TRUE,
                                 Some(screenshot), Some(digest_hash), <<>>)
                /\ last_payload_digest' = Some(digest_hash)
                /\ last_image' = Some(screenshot)
        /\ UNCHANGED <<overlay_text, last_message>>
        /\ Idle

TickNoSuggestion ==
    \E title \in TitlesSeen :
        /\ TimerFires
        /\ ~should_skip_window(args.window_keywords, title)
        /\ \E frame \in Frames :
            LET screenshot == Screenshot(frame)
                digest_hash == DigestOf(screenshot)
            IN  /\ ReachesAnalysis(screenshot)
                /\ \E response \in Responses : analyze_frame(response) = <<>>
                /\ tick' = Trace(title, "no_suggestion", TRUE, TRUE, TRUE,
                                 Some(screenshot), Some(digest_hash), <<>>)
        /\ UNCHANGED overlay_text
        /\ KeepState /\ Idle

TickAccepted_KeepsOldFrame ==
    \E title \in TitlesSeen :
        /\ TimerFires
        /\ ~should_skip_window(args.window_keywords, title)
        /\ \E frame \in Frames :
            LET screenshot == Screenshot(frame)
                digest_hash == DigestOf(screenshot)
            IN  /\ ReachesAnalysis(screenshot)
                /\ \E response \in Responses :
                    LET message == analyze_frame(response)
                    IN  /\ message # <<>>
                        /\ IF message # last_message
                           THEN /\ overlay_text' = Overlay("message", message)
                                /\ last_message' = message
                           ELSE UNCHANGED <<overlay_text, last_message>>
                        /\ tick' = Trace(title, "accepted", TRUE, TRUE, TRUE,
                                         Some(screenshot), Some(digest_hash),
                                         message)
        /\ UNCHANGED <<last_payload_digest, last_image>>
        /\ Idle

TickAccepted_StoresOnlyNewText ==
    \E title \in TitlesSeen :
        /\ TimerFires
        /\ ~should_skip_window(args.window_keywords, title)
        /\ \E frame \in Frames :
            LET screenshot == Screenshot(frame)
                digest_hash == DigestOf(screenshot)
            IN  /\ ReachesAnalysis(screenshot)
                /\ \E response \in Responses :
                    LET message == analyze_frame(response)
                    IN  /\ message # <<>>
                        /\ IF message # last_message
                           THEN /\ overlay_text' = Overlay("message", message)
                                /\ last_message' = message
                                /\ last_payload_digest' = Some(digest_hash)
                                /\ last_image' = Some(screenshot)
                           ELSE UNCHANGED <<overlay_text, last_message,
                                            last_payload_digest, last_image>>
                        /\ tick' = Trace(title, "accepted", TRUE, TRUE, TRUE,
                                         Some(screenshot), Some(digest_hash),
                                         message)
        /\ Idle

TickAccepted ==
    \E title \in TitlesSeen :
        /\ TimerFires
        /\ ~should_skip_window(args.window_keywords, title)
        /\ \E frame \in Frames :
            LET screenshot == Screenshot(frame)
                digest_hash == DigestOf(screenshot)
            IN  /\ ReachesAnalysis(screenshot)
                /\ \E response \in Responses :
                    LET message == analyze_frame(response)
                    IN  /\ message # <<>>
                        /\ IF message # last_message
                           THEN /\ overlay_text' = Overlay("message", message)
                                /\ last_message' = message
                           ELSE UNCHANGED <<overlay_text, last_message>>
                        /\ tick' = Trace(title, "accepted", TRUE, TRUE, TRUE,
                                         Some(screenshot), Some(digest_hash),
                                         message)
                /\ last_payload_digest' = Some(digest_hash)
                /\ last_image' = Some(screenshot)
        /\ Idle

\* main() at app.exec(): the overlay shows "Screen Coach listening..."
Init ==
    /\ args \in ArgsChoices
    /\ regions = ConfiguredRegions(args)
    /\ last_payload_digest = None
    /\ last_image = None
    /\ last_message = <<>>
    /\ overlay_text = Overlay("listening", <<>>)
    /\ tick = NoTick
    /\ config = <<>> /\ parsed = None
    /\ heap = <<>> /\ call = None /\ returned = None

Next ==
    \/ TickSkipWindow
    \/ TickCaptureFailed
    \/ TickNoChange
    \/ TickDuplicate
    \/ TickAnalysisFailed
    \/ TickNoSuggestion
    \/ TickAccepted

Spec == Init /\ [][Next]_vars

----------------------------------------------------------------------------
(* parse_region_config on generated --redact texts *)

RECURSIVE join(_, _)
join(pieces, sep) ==
    IF pieces = <<>> THEN <<>>
    ELSE IF Len(pieces) = 1 THEN pieces[1]
    ELSE pieces[1] \o <<sep>> \o join(Tail(pieces), sep)

Fields == {<<>>, <<" ">>, <<"0">>, <<"1">>, <<"x">>}

FirstGroups ==
    {join(fs, ",") : fs \in UNION {[1..n -> Fields] : n \in 1..MaxFields}}

OtherGroups ==
    {<<>>, <<";">>, <<";", "0", ",", "0", ",", "1", ",", "1">>,
     <<";", " ", ";", "1", ",", "1", ",", "0", ",", "0">>}

Configs == {g \o t : g \in FirstGroups, t \in OtherGroups}

\* the state of main() before the timer runs, for the runs of single functions
Standby ==
    /\ args = [window_keywords |-> <<>>, redact |-> <<>>, no_webp |-> FALSE]
    /\ regions = <<>>
    /\ last_payload_digest = None
    /\ last_image = None
    /\ last_message = <<>>
    /\ overlay_text = Overlay("ready", <<>>)
    /\ tick = NoTick

InitParse ==
    /\ Standby
    /\ config \in Configs /\ parsed = None
    /\ heap = <<>> /\ call = None /\ returned = None

ParseConfig ==
    /\ parsed = None
    /\ parsed' = Some(parse_region_config(config))
    /\ UNCHANGED <<args, regions, last_payload_digest, last_image, last_message,
                   overlay_text, tick, config, heap, call, returned>>

NextParse == ParseConfig

SpecParse == InitParse /\ [][NextParse]_vars

----------------------------------------------------------------------------
(* redact_regions on generated images and regions *)

TestSize == <<2, 2>>

TestImages == {Bitmap(TestSize, px) : px \in [Positions(TestSize) -> {Black, White}]}

\* the rectangles that lie inside a TestSize image
TestRegions ==
    {rg \in [left : 0..TestSize[1], top : 0..TestSize[2],
             right : 0..TestSize[1], bottom : 0..TestSize[2]] :
        rg.right > rg.left /\ rg.bottom > rg.top}

RegionLists == UNION {[1..n -> TestRegions] : n \in 0..MaxRegions}

InitRedact ==
    /\ Standby
    /\ config = <<>> /\ parsed = None
    /\ \E image \in TestImages, rs \in RegionLists, color \in {Black, White} :
          /\ heap = <<image>>
          /\ call = Some([image |-> 1, regions |-> rs, fill_color |-> color,
                          input |-> image])
    /\ returned = None

Redact ==
    /\ returned = None
    /\ LET r == redact_regions(heap, call[1].image, call[1].regions,
                               call[1].fill_color)
       IN  heap' = r.heap /\ returned' = Some(r.ref)
    /\ UNCHANGED <<args, regions, last_payload_digest, last_image, last_message,
                   overlay_text, tick, config, parsed, call>>

NextRedact == Redact

SpecRedact == InitRedact /\ [][NextRedact]_vars

----------------------------------------------------------------------------
(* Properties of process_frame (specification Spec) *)

\* the tick just run and the one before it both captured a frame, and the two
\* redacted bitmaps are identical
SameAsPreviousCapture ==
    /\ tick.captured
    /\ tick.prev_screenshot # None
    /\ tick.screenshot = tick.prev_screenshot

C2_CaptureFailureKeepsState ==
    tick.outcome = "capture_failed"
    => /\ PipelineState = tick.pre
       /\ ~tick.analyzed
       /\ overlay_text.kind = "capture_failed"

C2_Witness ==
    /\ tick.outcome = "capture_failed"
    /\ last_image # None
    /\ tick.prev_outcome = "accepted"

\* C3 as stated: after every tick whose analyze_frame call returned (any text,
\* the empty one included) last_image is this tick's redacted bitmap and
\* last_payload_digest this tick's digest.
C3_StoredAfterEveryAnswer ==
    (tick.analyzed /\ tick.outcome # "analysis_failed")
    => /\ last_image = tick.screenshot
       /\ last_payload_digest = tick.digest

\* C3 amended: after every tick whose analyze_frame call returned a non-empty
\* text (equal to last_message or not) last_image is this tick's redacted
\* bitmap and last_payload_digest this tick's digest; an empty text stores
\* nothing.
C3_StoredAfterNonEmptyAnswer ==
    /\ tick.outcome = "accepted"
       => /\ last_image = tick.screenshot
          /\ last_payload_digest = tick.digest
    /\ tick.outcome = "no_suggestion" => PipelineState = tick.pre

C3_Witness ==
    /\ tick.outcome = "accepted"
    /\ tick.message = tick.pre.last_message
    /\ last_image # tick.pre.last_image

\* C4: a tick whose analyze_frame call fails leaves last_payload_digest,
\* last_message and last_image unchanged and shows the error on the overlay,
\* and the loop goes on: while the model still runs ticks, a later tick can
\* reach the analysis step and have its answer accepted.
C4_AnalysisFailureKeepsStateAndLoop ==
    tick.outcome = "analysis_failed"
    => /\ PipelineState = tick.pre
       /\ overlay_text.kind = "analysis_failed"
       /\ tick.n < MaxTicks => ENABLED TickAccepted

C4_Witness ==
    /\ tick.prev_outcome = "analysis_failed"
    /\ tick.outcome = "accepted"

\* a keyword occurs in the title, compared case-insensitively; an absent
\* title contains none
TitleHasKeyword(title) ==
    /\ title # None
    /\ \E i \in 1..Len(args.window_keywords) :
          contains(lower(title[1]), lower(args.window_keywords[i]))

\* the tick stopped at the window filter: nothing captured, encoded or
\* analysed, and the three fields as they were
SkippedEntirely ==
    /\ tick.outcome = "skipped_window"
    /\ ~tick.captured /\ ~tick.encoded /\ ~tick.analyzed
    /\ PipelineState = tick.pre

Thresholds == {0, 1, DefaultThreshold, 255, 1000}

\* C6: a tick that captures while last_image is absent always goes on to the
\* encode step, and has_significant_change is true of every bitmap and every
\* threshold when there is no previous image.
C6_FirstFrameAlwaysEncoded ==
    /\ (tick.captured /\ tick.pre.last_image = None) => tick.encoded
    /\ \A b \in Bitmaps, t \in Thresholds : has_significant_change(b, None, t)

C6_Witness ==
    /\ tick.n > 1
    /\ tick.captured
    /\ tick.pre.last_image = None
    /\ tick.encoded

\* C9: a tick whose payload digest equals last_payload_digest does not call
\* analyze_frame and changes none of the three fields; analyze_frame is only
\* ever called with a payload whose digest differs from the last_payload_digest
\* the tick started with.
C9_EqualDigestSkips ==
    /\ (tick.encoded /\ tick.digest = tick.pre.last_payload_digest)
       => (~tick.analyzed /\ PipelineState = tick.pre)
    /\ tick.analyzed => tick.digest # tick.pre.last_payload_digest

C9_Witness ==
    /\ tick.outcome = "duplicate"
    /\ tick.screenshot # last_image

\* C10: last_image and last_payload_digest are both absent or both set, and
\* they are set exactly when last_message is non-empty.
C10_StateShape ==
    /\ last_image = None <=> last_payload_digest = None
    /\ last_image # None => last_message # <<>>
    /\ last_message # <<>> => last_image # None

C10_Witness ==
    /\ last_image # None
    /\ last_payload_digest = Some(DigestOf(last_image[1]))
    /\ tick.outcome = "no_suggestion"

----------------------------------------------------------------------------
(* Properties of parse_region_config (specification SpecParse) *)

\* the ';'-separated groups of the text that are not blank
Groups(cfg) ==
    LET chunks == split(cfg, ";")
    IN  {chunks[i] : i \in {k \in 1..Len(chunks) : strip(chunks[k]) # <<>>}}

ProperRectangle(c) == Len(c) = 4 /\ c[3] > c[1] /\ c[4] > c[2]

\* the group splits on ',' into exactly four integers of a proper rectangle
StrictGroup(g) ==
    LET fields == split(g, ",")
    IN  /\ Len(fields) = 4
        /\ \A i \in 1..4 : int(fields[i]).ok
        /\ ProperRectangle([i \in 1..4 |-> int(fields[i]).value])

\* the same, not counting the fields that are empty or blank
LenientGroup(g) ==
    LET fields == split(g, ",")
        kept == SelectSeq(fields, LAMBDA f : strip(f) # <<>>)
    IN  /\ Len(kept) = 4
        /\ \A i \in 1..4 : int(kept[i]).ok
        /\ ProperRectangle([i \in 1..4 |-> int(kept[i]).value])

\* C7 as stated: parse_region_config returns regions only if every non-blank
\* group splits on ',' into exactly four integer fields of a rectangle with
\* right > left and bottom > top (an empty field counts as a field).
C7_ReturnsOnlyStrictGroups ==
    (parsed # None /\ parsed[1].ok) => \A g \in Groups(config) : StrictGroup(g)

\* C7 amended: parse_region_config returns regions exactly when every
\* non-blank group, once its empty and blank fields are dropped, has exactly
\* four integer fields of a rectangle with right > left and bottom > top;
\* otherwise it fails and returns no region.
C7_ReturnsExactlyLenientGroups ==
    parsed # None
    => /\ parsed[1].ok <=> \A g \in Groups(config) : LenientGroup(g)
       /\ parsed[1].ok
            => /\ Len(parsed[1].regions) = Len(SelectSeq(split(config, ";"),
                                                  LAMBDA c : strip(c) # <<>>))
               /\ \A i \in 1..Len(parsed[1].regions) :
                     /\ parsed[1].regions[i].right > parsed[1].regions[i].left
                     /\ parsed[1].regions[i].bottom > parsed[1].regions[i].top
       /\ ~parsed[1].ok => parsed[1].regions = <<>>

C7_Witness ==
    /\ parsed # None
    /\ parsed[1].ok
    /\ Len(parsed[1].regions) = 2
    /\ \E g \in Groups(config) : Len(split(g, ",")) = 5

----------------------------------------------------------------------------
(* Properties of redact_regions (specification SpecRedact) *)

Covered(p, rs) ==
    \E i \in 1..Len(rs) :
        /\ rs[i].left <= p[1] /\ p[1] < rs[i].right
        /\ rs[i].top <= p[2] /\ p[2] < rs[i].bottom

\* C8: in fill mode, with regions inside the bitmap, every pixel of the
\* result outside all regions equals the input pixel, every pixel inside a
\* region equals the fill colour, and the caller's image is not modified.
C8_FillRedaction ==
    returned # None
    => LET c == call[1]
           out == heap[returned[1]]
       IN  /\ heap[c.image] = c.input
           /\ out.size = c.input.size
           /\ \A p \in Positions(c.input.size) :
                 out.px[p] = IF Covered(p, c.regions) THEN c.fill_color
                             ELSE c.input.px[p]

C8_Witness ==
    /\ returned # None
    /\ Len(call[1].regions) = 2
    /\ \E p \in Positions(TestSize) :
          /\ \A i \in 1..2 : Covered(p, <<call[1].regions[i]>>)
          /\ call[1].input.px[p] # call[1].fill_color
    /\ \E p \in Positions(TestSize) :
          /\ ~Covered(p, call[1].regions)
          /\ call[1].input.px[p] # call[1].fill_color

====
